---------------------------- MODULE Spec2Model ----------------------------
(***************************************************************************)
(* MeVec<T, A>, the growable array of src/collections/vec.rs.              *)
(*                                                                         *)
(* A container is the record (ptr, cap, len, alloc) of the struct.  The    *)
(* heap is modelled explicitly: a block is live or free, has the byte size *)
(* it was allocated with, the allocation strategy that produced it, and    *)
(* one memory slot per element.  Slot i of a block is mem[i + 1].          *)
(*                                                                         *)
(* Every method is an operator on a "machine" record m holding the fields  *)
(* of self together with the heap and a log of what the call did: ev, the  *)
(* allocator calls and the reads through a raw slice; dr, the slots handed *)
(* to drop_in_place; wrote, whether it has yet written to its block or set *)
(* its length; ub, whether the call left defined behaviour (or failed a    *)
(* debug assertion).  A call that did so either returns normally or ends   *)
(* the process; the choice is left open.  A read of memory that is not     *)
(* there yields an arbitrary value.                                        *)
(***************************************************************************)
EXTENDS Integers, Sequences, FiniteSets, TLC

VARIABLES
    vecs,       \* the containers: VecIds -> [st, ptr, cap, len, alloc]
    heap,       \* BlockIds -> [live, size, by, mem]
    pushed,     \* the values pushed so far, while container 1 has seen only pushes
    call,       \* the call that has just returned: [op, who, args, pre, was]
    events,     \* the allocator calls and raw-slice reads it made, in order
    drops,      \* the slot indices it passed to drop_in_place, in order
    aborted     \* the process was ended by that call

vars == <<vecs, heap, pushed, call, events, drops, aborted>>

---------------------------------------------------------------------------
\* Bounds of the exploration.

MaxLen == 4         \* no call is made that would take a length above this
MaxSrc == 2         \* longest slice or iterator passed to a call
NumBlocks == 3      \* addresses the allocator has to hand out
ElemSize == 4       \* size_of::<T>() in bytes
PairLen == 2        \* the same as MaxLen, while the program holds two containers

Values == {1, 2}
VecIds == {1, 2}
BlockIds == 1..NumBlocks
Strategies == {"Global", "Custom"}

SeqsUpTo(n) == UNION {[1..k -> Values] : k \in 0..n}
Slices == SeqsUpTo(MaxSrc)

---------------------------------------------------------------------------
\* Memory.

Uninit == 0         \* content of a slot that was never written
Dangling == 0       \* NonNull::dangling(): the pointer of a container without a block

FreeBlock == [live |-> FALSE, size |-> 0, by |-> "Global", mem |-> <<>>]

\* NonNull<T> is never null, so `self.ptr.as_ptr().is_null()` is false.
is_null(p) == FALSE

\* Slot i of block p can be dereferenced.
InBlock(h, p, i) == p \in BlockIds /\ h[p].live /\ i >= 0 /\ i < Len(h[p].mem)

Min(a, b) == IF a < b THEN a ELSE b
Max(a, b) == IF a > b THEN a ELSE b

RECURSIVE next_power_of_two(_)
next_power_of_two(n) == IF n <= 1 THEN 1 ELSE 2 * next_power_of_two((n + 1) \div 2)

\* The address std::alloc::alloc returns: one that is not in use.
FreshBlock(h) == CHOOSE b \in BlockIds : ~h[b].live /\ \A c \in 1..(b - 1) : h[c].live

\* An entry of the log ev: what was called, through which strategy, on which
\* block with which byte size, whether the call was one the allocator (or the
\* memory) defines, and whether the method had written anything by then.
Event(m, what, p, size, ok) ==
    [call |-> what, via |-> "Global", blk |-> p, size |-> size, ok |-> ok,
     after_write |-> m.wrote]

\* std::alloc::alloc(Layout::array::<T>(n)); the new block is m.ret.
std_alloc(m, n) ==
    LET b == FreshBlock(m.heap) IN
    [m EXCEPT !.heap[b] = [live |-> TRUE, size |-> n * ElemSize, by |-> "Global",
                           mem |-> [i \in 1..n |-> Uninit]],
              !.ev = Append(@, Event(m, "alloc", b, n * ElemSize, TRUE)),
              !.ret = b]

\* std::alloc::dealloc(p, layout) with layout.size() = size.  Defined only for a
\* live block given with the size it was allocated with.
std_dealloc(m, p, size) ==
    LET known == p \in BlockIds /\ m.heap[p].live
        ok    == known /\ m.heap[p].size = size
    IN [m EXCEPT !.heap = IF known THEN [@ EXCEPT ![p] = FreeBlock] ELSE @,
                 !.ev = Append(@, Event(m, "dealloc", p, size, ok)),
                 !.ub = @ \/ ~ok]

\* The value read at slot i of block p as the k-th read of a copy; when there is
\* no such slot, whatever the machine finds there (m.junk[k]).
load(m, p, i, k) == IF InBlock(m.heap, p, i) THEN m.heap[p].mem[i + 1] ELSE m.junk[k]

\* `&*p.add(i)`: the slot is read as a T, so it has to hold one.
IsInit(m, p, i) == InBlock(m.heap, p, i) /\ m.heap[p].mem[i + 1] # Uninit

\* ptr::write(p.add(i), val)
ptr_write(m, p, i, val) ==
    IF InBlock(m.heap, p, i)
    THEN [m EXCEPT !.heap[p].mem[i + 1] = val, !.wrote = @ \/ p = m.ptr]
    ELSE [m EXCEPT !.ub = TRUE, !.wrote = @ \/ p = m.ptr]

RECURSIVE store_all(_, _, _, _)
store_all(m, p, i, vals) ==
    IF vals = <<>> THEN m
    ELSE store_all(ptr_write(m, p, i, Head(vals)), p, i + 1, Tail(vals))

\* ptr::copy(sp.add(so), dp.add(dof), n): all n slots are read, then written.
\* ptr::copy_nonoverlapping is the same on regions that do not overlap.
ptr_copy(m, sp, so, dp, dof, n) ==
    LET vals == [k \in 1..n |-> load(m, sp, so + k - 1, k)]
        bad  == \E k \in 1..n : ~InBlock(m.heap, sp, so + k - 1)
    IN store_all([m EXCEPT !.ub = @ \/ bad], dp, dof, vals)

\* ptr::drop_in_place(p.add(i)): sound only on an initialised slot.
drop_in_place(m, p, i) ==
    [m EXCEPT !.dr = Append(@, i),
              !.ub = @ \/ ~IsInit(m, p, i)]

\* std::alloc::realloc(p, layout, new_size) with layout.size() = size: the block
\* keeps its leading slots and is resized, in place or at a new address as the
\* allocator pleases (m.moved).  Defined only when layout is the block's own.
std_realloc(m, p, size, new_size) ==
    LET known == p \in BlockIds /\ m.heap[p].live
        n     == new_size \div ElemSize
        old   == m.heap[p].mem
        kept  == [i \in 1..n |-> IF i <= Len(old) THEN old[i] ELSE Uninit]
        blk   == [live |-> TRUE, size |-> new_size, by |-> "Global", mem |-> kept]
        e     == Event(m, "realloc", p, size, known /\ m.heap[p].size = size)
    IN IF ~known THEN [m EXCEPT !.ev = Append(@, e), !.ub = TRUE, !.ret = p]
       ELSE LET b == IF m.moved THEN FreshBlock(m.heap) ELSE p IN
            [m EXCEPT !.heap = [[@ EXCEPT ![p] = FreeBlock] EXCEPT ![b] = blk],
                      !.ev = Append(@, e),
                      !.ub = @ \/ m.heap[p].size # size,
                      !.ret = b]

\* A slice: either the caller's own data, or n slots of block blk from slot off
\* (std::slice::from_raw_parts).
from_raw_parts(p, off, n) == [ext |-> FALSE, data |-> <<>>, blk |-> p, off |-> off, n |-> n]
Borrowed(data) == [ext |-> TRUE, data |-> data, blk |-> Dangling, off |-> 0, n |-> Len(data)]

\* The slice src is read: for one made from a raw pointer, the log gets the
\* block and whether all of its slots were there to be read.
read_slice(m, src) ==
    IF src.ext THEN m
    ELSE [m EXCEPT !.ev = Append(@, Event(m, "read", src.blk, src.n * ElemSize,
                       \A k \in 0..(src.n - 1) : InBlock(m.heap, src.blk, src.off + k)))]

\* ptr::copy_nonoverlapping(src.as_ptr(), dp.add(dof), src.len())
copy_from_slice(m, src, dp, dof) ==
    IF src.ext THEN store_all(m, dp, dof, src.data)
    ELSE ptr_copy(read_slice(m, src), src.blk, src.off, dp, dof, src.n)

\* RangeBounds: a bound is Included(i), Excluded(i) or Unbounded.
Included(i) == [kind |-> "included", at |-> i]
Excluded(i) == [kind |-> "excluded", at |-> i]
Unbounded == [kind |-> "unbounded", at |-> 0]

UsizeMax == 2147483647      \* usize::MAX, scaled to the integers of the model

start_bound(range) ==
    CASE range.lo.kind = "included" -> range.lo.at
      [] range.lo.kind = "excluded" -> range.lo.at + 1
      [] range.lo.kind = "unbounded" -> 0

\* The end of a range; an open end is `open`.
end_bound(range, open) ==
    CASE range.hi.kind = "included" -> range.hi.at + 1
      [] range.hi.kind = "excluded" -> range.hi.at
      [] range.hi.kind = "unbounded" -> open

saturating_sub(a, b) == IF a > b THEN a - b ELSE 0

---------------------------------------------------------------------------
\* The methods.

set_len(m, new_len) ==
    [m EXCEPT !.len = new_len, !.ub = @ \/ new_len > m.cap, !.wrote = TRUE]

\* reserve that forgets to carry the elements over to the new block.
reserve_no_copy(m, additional) ==
    IF m.len + additional > m.cap
    THEN LET new_cap == next_power_of_two(m.len + additional)
             a == std_alloc(m, new_cap)
             new_ptr == a.ret
             c == IF ~is_null(m.ptr)
                  THEN std_dealloc(a, m.ptr, m.cap * ElemSize)
                  ELSE a
         IN [c EXCEPT !.ptr = new_ptr, !.cap = new_cap]
    ELSE m

reserve(m, additional) ==
    IF m.len + additional > m.cap
    THEN LET new_cap == next_power_of_two(m.len + additional)
             a == std_alloc(m, new_cap)
             new_ptr == a.ret
             c == IF ~is_null(m.ptr)
                  THEN std_dealloc(ptr_copy(a, m.ptr, 0, new_ptr, 0, m.len),
                                   m.ptr, m.cap * ElemSize)
                  ELSE a
         IN [c EXCEPT !.ptr = new_ptr, !.cap = new_cap]
    ELSE m

\* reserve_exact that allocates just what was asked for.
reserve_exact_tight(m, additional) ==
    IF m.len + additional > m.cap
    THEN LET new_cap == m.len + additional
             a == std_alloc(m, new_cap)
             new_ptr == a.ret
             c == IF ~is_null(m.ptr)
                  THEN std_dealloc(ptr_copy(a, m.ptr, 0, new_ptr, 0, m.len),
                                   m.ptr, m.cap * ElemSize)
                  ELSE a
         IN [c EXCEPT !.ptr = new_ptr, !.cap = new_cap]
    ELSE m

reserve_exact(m, additional) ==
    IF m.len + additional > m.cap
    THEN LET new_cap == next_power_of_two(m.len + additional)
             a == std_alloc(m, new_cap)
             new_ptr == a.ret
             c == IF ~is_null(m.ptr)
                  THEN std_dealloc(ptr_copy(a, m.ptr, 0, new_ptr, 0, m.len),
                                   m.ptr, m.cap * ElemSize)
                  ELSE a
         IN [c EXCEPT !.ptr = new_ptr, !.cap = new_cap]
    ELSE m

push(m, value) ==
    LET r == IF m.len = m.cap THEN reserve(m, 1) ELSE m
    IN set_len(ptr_write(r, r.ptr, r.len, value), r.len + 1)

\* shrink_to_fit that gives memory back only when more than half of it is unused.
shrink_to_fit_lazy(m) ==
    IF 2 * m.len < m.cap
    THEN LET new_cap == Max(m.len, 1) IN
         IF new_cap < m.cap
         THEN LET r == std_realloc(m, m.ptr, new_cap * ElemSize, new_cap * ElemSize)
              IN [r EXCEPT !.ptr = r.ret, !.cap = new_cap]
         ELSE m
    ELSE m

shrink_to_fit(m) ==
    IF m.len < m.cap
    THEN LET new_cap == Max(m.len, 1) IN
         IF new_cap < m.cap
         THEN LET r == std_realloc(m, m.ptr, new_cap * ElemSize, new_cap * ElemSize)
              IN [r EXCEPT !.ptr = r.ret, !.cap = new_cap]
         ELSE m
    ELSE m

clear(m) ==
    IF ~is_null(m.ptr)
    THEN [drop_in_place(m, m.ptr, 0) EXCEPT !.len = 0, !.wrote = TRUE]
    ELSE m

RECURSIVE extend(_, _)
extend(m, iter) ==
    IF iter = <<>> THEN m ELSE extend(push(m, Head(iter)), Tail(iter))

\* extend_from_slice that copies first and makes room afterwards.
extend_from_slice_late_reserve(m, src) ==
    LET src_len == src.n IN
    IF src_len > 0
    THEN LET c == copy_from_slice(m, src, m.ptr, m.len)
             r == reserve(c, src_len)
         IN set_len(r, r.len + src_len)
    ELSE m

extend_from_slice(m, src) ==
    LET src_len == src.n IN
    IF src_len > 0
    THEN LET r == reserve(m, src_len)
         IN set_len(copy_from_slice(r, src, r.ptr, r.len), r.len + src_len)
    ELSE m

extend_from_within(m, range) ==
    LET start == start_bound(range)
        end   == end_bound(range, m.len)
    IN IF start < end /\ end <= m.len
       THEN extend_from_slice(m, from_raw_parts(m.ptr, start, end - start))
       ELSE m

\* retain that counts the kept elements but never moves them down.
RECURSIVE retain_loop_no_move(_, _, _, _)
retain_loop_no_move(m, f, i, write_index) ==
    IF i >= m.len THEN [m EXCEPT !.ret = write_index]
    ELSE IF load(m, m.ptr, i, 1) \in f
         THEN retain_loop_no_move(m, f, i + 1, write_index + 1)
         ELSE retain_loop_no_move(m, f, i + 1, write_index)

RECURSIVE retain_loop(_, _, _, _)
retain_loop(m, f, i, write_index) ==
    IF i >= m.len THEN [m EXCEPT !.ret = write_index]
    ELSE LET item == load(m, m.ptr, i, 1)
             t == [m EXCEPT !.ub = @ \/ ~IsInit(m, m.ptr, i)]
         IN IF item \in f
            THEN retain_loop(IF write_index # i
                             THEN ptr_copy(t, t.ptr, i, t.ptr, write_index, 1)
                             ELSE t,
                             f, i + 1, write_index + 1)
            ELSE retain_loop(t, f, i + 1, write_index)

\* The predicate f is the set of values it accepts.
retain(m, f) ==
    IF m.len = 0 THEN m
    ELSE LET r == retain_loop(m, f, 0, 0) IN set_len(r, r.ret)

\* for i in lo..hi { drop_in_place(ptr.add(i)) } with ptr = p.add(base)
RECURSIVE drop_range(_, _, _, _, _)
drop_range(m, p, base, i, hi) ==
    IF i >= hi THEN m
    ELSE drop_range(drop_in_place(m, p, base + i), p, base, i + 1, hi)

\* truncate that sets the length whatever new_len is.
truncate_unguarded(m, new_len) ==
    set_len(drop_range(m, m.ptr, new_len, new_len, m.len), new_len)

truncate(m, new_len) ==
    IF new_len < m.len
    THEN set_len(drop_range(m, m.ptr, new_len, new_len, m.len), new_len)
    ELSE m

\* resize that reserves only when the new length exceeds twice the capacity.
resize_late_reserve(m, new_len, value) ==
    LET r == IF new_len > 2 * m.cap THEN reserve(m, new_len - m.len) ELSE m
        w == IF new_len > r.len
             THEN store_all(r, r.ptr, r.len, [i \in 1..(new_len - r.len) |-> value])
             ELSE r
    IN set_len(w, new_len)

resize(m, new_len, value) ==
    LET r == IF new_len > m.cap THEN reserve(m, new_len - m.len) ELSE m
        w == IF new_len > r.len
             THEN store_all(r, r.ptr, r.len, [i \in 1..(new_len - r.len) |-> value])
             ELSE r
    IN set_len(w, new_len)

\* replace_impl that leaves the tail where it was.
replace_impl_no_shift(m, range_start, range_end, src) ==
    LET dst_len == m.len
        src_len == src.n
        off     == Min(range_start, dst_len)
        del_len == Min(saturating_sub(range_end, off), dst_len - off)
    IN IF del_len = 0 /\ src_len = 0 THEN m
       ELSE LET new_len  == dst_len - del_len + src_len
                r == IF src_len > del_len THEN reserve(m, src_len - del_len) ELSE m
            IN set_len(copy_from_slice(r, src, r.ptr, off), new_len)

\* replace_impl that takes the start of the range as it comes.
replace_impl_unclamped(m, range_start, range_end, src) ==
    LET dst_len == m.len
        src_len == src.n
        off     == range_start
        del_len == Min(saturating_sub(range_end, off), saturating_sub(dst_len, off))
    IN IF del_len = 0 /\ src_len = 0 THEN m
       ELSE LET tail_len == saturating_sub(dst_len, off + del_len)
                new_len  == Max(dst_len, off) - del_len + src_len
                r == IF new_len > dst_len THEN reserve(m, new_len - dst_len) ELSE m
                s == IF tail_len > 0 /\ src_len # del_len
                     THEN ptr_copy(r, r.ptr, off + del_len, r.ptr, off + src_len, tail_len)
                     ELSE r
            IN set_len(copy_from_slice(s, src, s.ptr, off), new_len)

replace_impl(m, range_start, range_end, src) ==
    LET dst_len == m.len
        src_len == src.n
        off     == Min(range_start, dst_len)
        del_len == Min(saturating_sub(range_end, off), dst_len - off)
    IN IF del_len = 0 /\ src_len = 0 THEN m
       ELSE LET tail_len == dst_len - off - del_len
                new_len  == dst_len - del_len + src_len
                r == IF src_len > del_len THEN reserve(m, src_len - del_len) ELSE m
                s == IF tail_len > 0 /\ src_len # del_len
                     THEN ptr_copy(r, r.ptr, off + del_len, r.ptr, off + src_len, tail_len)
                     ELSE r
            IN set_len(copy_from_slice(s, src, s.ptr, off), new_len)

replace_range(m, range, src) ==
    replace_impl(m, start_bound(range), end_bound(range, UsizeMax), src)

\* Drop for MeVec
drop(m) ==
    IF m.ptr # Dangling THEN std_dealloc(m, m.ptr, m.cap) ELSE m

\* leak that lets the destructor of the container run all the same.
leak_unforgotten(m) == [drop(m) EXCEPT !.ret = from_raw_parts(m.ptr, 0, m.len)]

\* The slice leak() hands out; the container is forgotten, nothing else happens.
leak(m) == [m EXCEPT !.ret = from_raw_parts(m.ptr, 0, m.len)]

\* clone that copies the fields of the container instead of its elements.
clone_shallow(m) == m

\* Clone for MeVec: the machine of new_vec, over the heap of m.
clone(m) ==
    LET new_vec == [m EXCEPT !.ptr = Dangling, !.cap = 0, !.len = 0]
        r == reserve(new_vec, m.len)
    IN set_len(ptr_copy(r, m.ptr, 0, r.ptr, 0, m.len), m.len)

---------------------------------------------------------------------------
\* Construction, on a heap h.

new_in(h, alloc) ==
    [ptr |-> Dangling, cap |-> 0, len |-> 0, alloc |-> alloc, heap |-> h,
     ev |-> <<>>, dr |-> <<>>, wrote |-> FALSE, ub |-> FALSE, ret |-> 0, junk |-> <<>>,
     moved |-> FALSE]

new(h) == new_in(h, "Global")

with_capacity_in(h, capacity, alloc) ==
    LET cap == Max(capacity, 1)
        a == std_alloc(new_in(h, alloc), cap)
    IN [a EXCEPT !.ptr = a.ret, !.cap = cap]

\* with_capacity that allocates what it is asked for, be it nothing.
with_capacity_as_asked(h, capacity) ==
    LET a == std_alloc(new(h), capacity)
    IN [a EXCEPT !.ptr = a.ret, !.cap = capacity]

with_capacity(h, capacity) ==
    LET cap == Max(capacity, 1)
        a == std_alloc(new(h), cap)
    IN [a EXCEPT !.ptr = a.ret, !.cap = cap]

from_iter(h, iter) == extend(new(h), iter)

new_repeated(h, value, count) ==
    LET r == reserve(new(h), count)
    IN set_len(store_all(r, r.ptr, 0, [i \in 1..count |-> value]), count)

---------------------------------------------------------------------------
\* The state machine: a program that constructs container 1, calls its methods,
\* may clone it into container 2, and drops or leaks what it holds.

EmptyHeap == [b \in BlockIds |-> FreeBlock]
NoVec == [st |-> "none", ptr |-> Dangling, cap |-> 0, len |-> 0, alloc |-> "Global"]

RangeIdx == 0..MaxLen
HalfOpen(a, b) == [lo |-> Included(a), hi |-> Excluded(b)]
FullRange == [lo |-> Unbounded, hi |-> Unbounded]
Ranges ==
    {HalfOpen(a, b) : a \in RangeIdx, b \in RangeIdx}
    \cup {FullRange,
          [lo |-> Included(1), hi |-> Unbounded],
          [lo |-> Unbounded, hi |-> Excluded(1)],
          [lo |-> Excluded(0), hi |-> Included(1)],
          [lo |-> Included(0), hi |-> Included(0)]}

JunkSeqs == [1..(MaxLen \div 2) -> Values]
AnyJunk == [k \in 1..(MaxLen \div 2) |-> 1]

NoArgs == [range |-> FullRange, src |-> <<>>, n |-> 0, value |-> 0, f |-> {},
           alloc |-> "Global"]

\* No call has just returned.
Idle == [op |-> "idle", who |-> 1, args |-> NoArgs, pre |-> NoVec, was |-> <<>>]

\* Container v can be called: the program is between two calls and holds v.  It
\* works on one container at a time: once it holds two, it only disposes of them.
Live(v) == ~aborted /\ call = Idle /\ vecs[v].st = "live"
Alone(v) == Live(v) /\ \A w \in VecIds \ {v} : vecs[w].st = "none"

\* The live region [0, len) of container v, as as_slice() shows it.
as_slice(h, c) == [i \in 1..c.len |-> IF InBlock(h, c.ptr, i - 1) THEN h[c.ptr].mem[i]
                                      ELSE Uninit]
Contents(v) == as_slice(heap, vecs[v])

\* self, the heap and the choices left to the machine, at the start of a call.
Self(v, junk, moved) ==
    [ptr |-> vecs[v].ptr, cap |-> vecs[v].cap, len |-> vecs[v].len,
     alloc |-> vecs[v].alloc, heap |-> heap,
     ev |-> <<>>, dr |-> <<>>, wrote |-> FALSE, ub |-> FALSE, ret |-> 0, junk |-> junk,
     moved |-> moved]

Fields(m, st) == [st |-> st, ptr |-> m.ptr, cap |-> m.cap, len |-> m.len, alloc |-> m.alloc]

OnlyPushes == {"new", "new_in", "with_capacity", "with_capacity_in", "from_iter", "push"}

\* The call `name(a)` made on container v ran as m and left container w in
\* state st.  If it left defined behaviour it may instead have ended the process.
Return(name, v, a, m, w, st) ==
    /\ call' = [op |-> name, who |-> v, args |-> a, pre |-> vecs[v], was |-> Contents(v)]
    /\ events' = m.ev
    /\ drops' = m.dr
    /\ \E crash \in (IF m.ub THEN BOOLEAN ELSE {FALSE}) :
         /\ aborted' = crash
         /\ IF crash
            THEN UNCHANGED <<vecs, heap, pushed>>
            ELSE /\ vecs' = [vecs EXCEPT ![w] = Fields(m, st)]
                 /\ heap' = m.heap
                 /\ pushed' = IF w # 1 THEN pushed
                              ELSE IF name = "push" /\ pushed.ok
                              THEN [ok |-> TRUE, seq |-> Append(pushed.seq, a.value)]
                              ELSE [ok |-> FALSE, seq |-> <<>>]

\* Container 1 is constructed by `name(a)`, which ran as m.
Start(name, a, m) ==
    /\ call = [op |-> name, who |-> 1, args |-> a, pre |-> NoVec, was |-> <<>>]
    /\ events = m.ev
    /\ drops = m.dr
    /\ \E crash \in (IF m.ub THEN BOOLEAN ELSE {FALSE}) :
         /\ aborted = crash
         /\ vecs = [v \in VecIds |-> IF v = 1 /\ ~crash THEN Fields(m, "live") ELSE NoVec]
         /\ heap = IF crash THEN EmptyHeap ELSE m.heap
         /\ pushed = IF crash THEN [ok |-> FALSE, seq |-> <<>>]
                    ELSE [ok |-> name \in OnlyPushes, seq |-> a.src]

Init ==
    \/ Start("new", NoArgs, new(EmptyHeap))
    \/ \E a \in Strategies :
         Start("new_in", [NoArgs EXCEPT !.alloc = a], new_in(EmptyHeap, a))
    \/ \E n \in 0..MaxLen :
         Start("with_capacity", [NoArgs EXCEPT !.n = n], with_capacity(EmptyHeap, n))
    \/ \E n \in 0..MaxLen, a \in Strategies :
         Start("with_capacity_in", [NoArgs EXCEPT !.n = n, !.alloc = a],
               with_capacity_in(EmptyHeap, n, a))
    \/ \E value \in Values, count \in 0..MaxLen :
         Start("new_repeated", [NoArgs EXCEPT !.value = value, !.n = count],
               new_repeated(EmptyHeap, value, count))
    \/ \E iter \in Slices :
         Start("from_iter", [NoArgs EXCEPT !.src = iter], from_iter(EmptyHeap, iter))

\* The caller goes on to its next statement.
Continue ==
    /\ ~aborted
    /\ call # Idle
    /\ call' = Idle
    /\ events' = <<>>
    /\ drops' = <<>>
    /\ UNCHANGED <<vecs, heap, pushed, aborted>>

Reserve(v) ==
    /\ Alone(v)
    /\ \E additional \in 0..(MaxLen - vecs[v].len) :
         Return("reserve", v, [NoArgs EXCEPT !.n = additional],
                reserve(Self(v, <<>>, FALSE), additional), v, "live")

ReserveExact(v) ==
    /\ Alone(v)
    /\ \E additional \in 0..(MaxLen - vecs[v].len) :
         Return("reserve_exact", v, [NoArgs EXCEPT !.n = additional],
                reserve_exact(Self(v, <<>>, FALSE), additional), v, "live")

ShrinkToFit(v) ==
    /\ Alone(v)
    /\ \E moved \in BOOLEAN :
         Return("shrink_to_fit", v, NoArgs, shrink_to_fit(Self(v, <<>>, moved)), v, "live")

Clear(v) ==
    /\ Alone(v)
    /\ Return("clear", v, NoArgs, clear(Self(v, <<>>, FALSE)), v, "live")

Extend(v) ==
    /\ Alone(v)
    /\ \E iter \in Slices :
         /\ vecs[v].len + Len(iter) <= MaxLen
         /\ Return("extend", v, [NoArgs EXCEPT !.src = iter],
                   extend(Self(v, <<>>, FALSE), iter), v, "live")

ExtendFromSlice(v) ==
    /\ Alone(v)
    /\ \E src \in Slices :
         /\ vecs[v].len + Len(src) <= MaxLen
         /\ Return("extend_from_slice", v, [NoArgs EXCEPT !.src = src],
                   extend_from_slice(Self(v, <<>>, FALSE), Borrowed(src)), v, "live")

\* What the reads of a dangling slice may find matters only if the call makes any.
ExtendFromWithin(v) ==
    /\ Alone(v)
    /\ \E range \in Ranges :
         /\ vecs[v].len + (end_bound(range, vecs[v].len) - start_bound(range)) <= MaxLen
         /\ \E junk \in (IF extend_from_within(Self(v, AnyJunk, FALSE), range).ub
                         THEN JunkSeqs ELSE {AnyJunk}) :
              Return("extend_from_within", v, [NoArgs EXCEPT !.range = range],
                     extend_from_within(Self(v, junk, FALSE), range), v, "live")

Retain(v) ==
    /\ Alone(v)
    /\ \E f \in SUBSET Values :
         Return("retain", v, [NoArgs EXCEPT !.f = f], retain(Self(v, <<>>, FALSE), f),
                v, "live")

Push(v) ==
    /\ Alone(v)
    /\ vecs[v].len < MaxLen
    /\ \E value \in Values :
         Return("push", v, [NoArgs EXCEPT !.value = value],
                push(Self(v, <<>>, FALSE), value), v, "live")

Truncate(v) ==
    /\ Alone(v)
    /\ \E new_len \in 0..(MaxLen + 1) :
         Return("truncate", v, [NoArgs EXCEPT !.n = new_len],
                truncate(Self(v, <<>>, FALSE), new_len), v, "live")

Resize(v) ==
    /\ Alone(v)
    /\ \E new_len \in 0..MaxLen, value \in Values :
         Return("resize", v, [NoArgs EXCEPT !.n = new_len, !.value = value],
                resize(Self(v, <<>>, FALSE), new_len, value), v, "live")

ReplaceRange(v) ==
    /\ Alone(v)
    /\ \E range \in Ranges, src \in Slices :
         LET m == replace_range(Self(v, <<>>, FALSE), range, Borrowed(src)) IN
         /\ m.len <= MaxLen
         /\ Return("replace_range", v, [NoArgs EXCEPT !.range = range, !.src = src],
                   m, v, "live")

\* The container goes out of scope.
Drop(v) ==
    /\ Live(v)
    /\ Return("drop", v, NoArgs,
              [drop(Self(v, <<>>, FALSE)) EXCEPT !.ptr = Dangling, !.cap = 0, !.len = 0],
              v, "dropped")

Leak(v) ==
    /\ Live(v)
    /\ Return("leak", v, NoArgs, leak(Self(v, <<>>, FALSE)), v, "leaked")

Clone(v) ==
    /\ Alone(v)
    /\ \E w \in VecIds :
         /\ vecs[w].st = "none"
         /\ Return("clone", v, NoArgs, clone(Self(v, <<>>, FALSE)), w, "live")

Next ==
    \/ Continue
    \/ \E v \in VecIds :
        \/ Reserve(v)
        \/ ReserveExact(v)
        \/ ShrinkToFit(v)
        \/ Clear(v)
        \/ Extend(v)
        \/ ExtendFromSlice(v)
        \/ ExtendFromWithin(v)
        \/ Retain(v)
        \/ Push(v)
        \/ Truncate(v)
        \/ Resize(v)
        \/ ReplaceRange(v)
        \/ Drop(v)
        \/ Leak(v)
        \/ Clone(v)

Spec == Init /\ [][Next]_vars

---------------------------------------------------------------------------
\* The program that clones the container it has constructed and then goes on
\* calling the methods of both, the original and the clone.

\* Container v can be called, and the program holds another one beside it.
Paired(v) == Live(v) /\ \E w \in VecIds \ {v} : vecs[w].st # "none"

\* The call takes the length to n: within the bound, or no further than it was.
PairFits(v, n) == n <= PairLen \/ n <= vecs[v].len

\* The arguments it passes while it holds two.
PairSlices == SeqsUpTo(1)
PairRanges == {HalfOpen(a, b) : a \in 0..1, b \in 1..PairLen} \cup {FullRange}

\* The clone is made of a container within the bound.
PairClone(v) ==
    /\ vecs[v].cap <= PairLen
    /\ Clone(v)

PairReserve(v) ==
    /\ Paired(v)
    /\ \E additional \in 1..PairLen :
         /\ PairFits(v, vecs[v].len + additional)
         /\ Return("reserve", v, [NoArgs EXCEPT !.n = additional],
                   reserve(Self(v, <<>>, FALSE), additional), v, "live")

PairReserveExact(v) ==
    /\ Paired(v)
    /\ \E additional \in 1..PairLen :
         /\ PairFits(v, vecs[v].len + additional)
         /\ Return("reserve_exact", v, [NoArgs EXCEPT !.n = additional],
                   reserve_exact(Self(v, <<>>, FALSE), additional), v, "live")

PairShrinkToFit(v) ==
    /\ Paired(v)
    /\ \E moved \in BOOLEAN :
         Return("shrink_to_fit", v, NoArgs, shrink_to_fit(Self(v, <<>>, moved)), v, "live")

PairClear(v) ==
    /\ Paired(v)
    /\ Return("clear", v, NoArgs, clear(Self(v, <<>>, FALSE)), v, "live")

PairExtend(v) ==
    /\ Paired(v)
    /\ \E iter \in PairSlices :
         /\ PairFits(v, vecs[v].len + Len(iter))
         /\ Return("extend", v, [NoArgs EXCEPT !.src = iter],
                   extend(Self(v, <<>>, FALSE), iter), v, "live")

PairExtendFromSlice(v) ==
    /\ Paired(v)
    /\ \E src \in PairSlices :
         /\ PairFits(v, vecs[v].len + Len(src))
         /\ Return("extend_from_slice", v, [NoArgs EXCEPT !.src = src],
                   extend_from_slice(Self(v, <<>>, FALSE), Borrowed(src)), v, "live")

PairExtendFromWithin(v) ==
    /\ Paired(v)
    /\ \E range \in PairRanges :
         /\ PairFits(v, vecs[v].len + (end_bound(range, vecs[v].len) - start_bound(range)))
         /\ \E junk \in (IF extend_from_within(Self(v, AnyJunk, FALSE), range).ub
                         THEN JunkSeqs ELSE {AnyJunk}) :
              Return("extend_from_within", v, [NoArgs EXCEPT !.range = range],
                     extend_from_within(Self(v, junk, FALSE), range), v, "live")

PairRetain(v) ==
    /\ Paired(v)
    /\ \E f \in SUBSET Values :
         Return("retain", v, [NoArgs EXCEPT !.f = f], retain(Self(v, <<>>, FALSE), f),
                v, "live")

PairPush(v) ==
    /\ Paired(v)
    /\ PairFits(v, vecs[v].len + 1)
    /\ \E value \in Values :
         Return("push", v, [NoArgs EXCEPT !.value = value],
                push(Self(v, <<>>, FALSE), value), v, "live")

PairTruncate(v) ==
    /\ Paired(v)
    /\ \E new_len \in 0..PairLen :
         Return("truncate", v, [NoArgs EXCEPT !.n = new_len],
                truncate(Self(v, <<>>, FALSE), new_len), v, "live")

PairResize(v) ==
    /\ Paired(v)
    /\ \E new_len \in 0..PairLen, value \in Values :
         /\ PairFits(v, new_len)
         /\ Return("resize", v, [NoArgs EXCEPT !.n = new_len, !.value = value],
                   resize(Self(v, <<>>, FALSE), new_len, value), v, "live")

PairReplaceRange(v) ==
    /\ Paired(v)
    /\ \E range \in PairRanges, src \in PairSlices :
         LET m == replace_range(Self(v, <<>>, FALSE), range, Borrowed(src)) IN
         /\ PairFits(v, m.len)
         /\ Return("replace_range", v, [NoArgs EXCEPT !.range = range, !.src = src],
                   m, v, "live")

NextClone ==
    \/ Continue
    \/ \E v \in VecIds :
        \/ PairClone(v)
        \/ PairReserve(v)
        \/ PairReserveExact(v)
        \/ PairShrinkToFit(v)
        \/ PairClear(v)
        \/ PairExtend(v)
        \/ PairExtendFromSlice(v)
        \/ PairExtendFromWithin(v)
        \/ PairRetain(v)
        \/ PairPush(v)
        \/ PairTruncate(v)
        \/ PairResize(v)
        \/ PairReplaceRange(v)
        \/ Drop(v)
        \/ Leak(v)

SpecClone == Init /\ [][NextClone]_vars

---------------------------------------------------------------------------
\* Properties of the calls.

\* The call `name` has returned, and this is the state it returned in.
Returned(name) == call.op = name /\ ~aborted

\* The container the last call was made on, as the call left it.
Now == vecs[call.who]
Live_now == Contents(call.who)

\* Slot index i lies in the range (RangeBounds::contains).
RangeContains(range, i) ==
    /\ CASE range.lo.kind = "included" -> i >= range.lo.at
         [] range.lo.kind = "excluded" -> i > range.lo.at
         [] range.lo.kind = "unbounded" -> TRUE
    /\ CASE range.hi.kind = "included" -> i <= range.hi.at
         [] range.hi.kind = "excluded" -> i < range.hi.at
         [] range.hi.kind = "unbounded" -> TRUE

\* The subsequence of s at the positions (from 1) in the set P, in order.
RECURSIVE Pick(_, _, _)
Pick(s, P, i) ==
    IF i > Len(s) THEN <<>>
    ELSE (IF i \in P THEN <<s[i]>> ELSE <<>>) \o Pick(s, P, i + 1)

\* Where a range starts in a sequence of length n: its first index, or n if that
\* lies beyond the end.
RangeFirst(range, n) ==
    Min(n, CASE range.lo.kind = "included" -> range.lo.at
             [] range.lo.kind = "excluded" -> range.lo.at + 1
             [] range.lo.kind = "unbounded" -> 0)

\* The reference splice on a plain sequence: the elements before the range, then
\* src, then the elements from the start of the range on that are not in it.
Splice(s, range, src) ==
    LET first == RangeFirst(range, Len(s))
    IN Pick(s, 1..first, 1) \o src
       \o Pick(s, {i \in (first + 1)..Len(s) : ~RangeContains(range, i - 1)}, 1)

\* How many elements of a sequence of length n the range deletes.
Deleted(range, n) == Cardinality({i \in RangeFirst(range, n)..(n - 1) : RangeContains(range, i)})

\* The sequence dr names each slot of lo..(hi - 1) exactly once, and no other.
ExactlyOnce(dr, lo, hi) ==
    /\ Len(dr) = Max(hi - lo, 0)
    /\ {dr[k] : k \in 1..Len(dr)} = lo..(hi - 1)

\* C1: in every state reached by the safe operations, the length of a container
\* is at most its capacity.
C1_LenWithinCap ==
    \A v \in VecIds : vecs[v].st = "live" => vecs[v].len <= vecs[v].cap

\* A resize that had to grow the block has returned.
C1_Witness ==
    /\ Returned("resize")
    /\ call.pre.cap > 0
    /\ Now.len > call.pre.cap
    /\ Now.len = Now.cap

\* C2: from an empty container, after N pushes the length is N and the live
\* region holds the pushed values in push order, whatever was reallocated.
C2_PushesInOrder ==
    pushed.ok => /\ vecs[1].len = Len(pushed.seq)
                 /\ Contents(1) = pushed.seq

\* The third push onto a container created empty has moved it to a larger block.
C2_Witness ==
    /\ Returned("push")
    /\ pushed.ok
    /\ Len(pushed.seq) = 3
    /\ call.pre.cap = 2
    /\ Now.cap = 4
    /\ Now.ptr # call.pre.ptr

\* C3: replace_range(range, src) leaves the contents and the length of the
\* reference splice on the sequence the container held before the call.
C3_ReplaceIsSplice ==
    Returned("replace_range") =>
        /\ Live_now = Splice(call.was, call.args.range, call.args.src)
        /\ Now.len = Len(Splice(call.was, call.args.range, call.args.src))

\* replace_range(1..2, two elements) on three elements has returned four, the
\* last of which it had to shift.
C3_Witness ==
    /\ Returned("replace_range")
    /\ call.was = <<1, 2, 1>>
    /\ call.args.range = HalfOpen(1, 2)
    /\ call.args.src = <<2, 2>>
    /\ Live_now = <<1, 2, 2, 1>>

\* C4: replace_range clamps what lies out of range.  A start beyond the length
\* appends src; an end beyond the length deletes what remains after the start;
\* with nothing to delete and nothing to insert the container is left as it was,
\* and no allocator call is made.  On a container that has a block the call
\* always returns.
C4_ReplaceClamps ==
    call.op = "replace_range" =>
        LET n     == call.pre.len
            range == call.args.range
            start == RangeFirst(range, UsizeMax)
        IN /\ call.pre.ptr # Dangling => ~aborted
           /\ ~aborted /\ start > n => Live_now = call.was \o call.args.src
           /\ ~aborted /\ start <= n /\ RangeContains(range, n) =>
                Live_now = SubSeq(call.was, 1, start) \o call.args.src
           /\ Deleted(range, n) = 0 /\ call.args.src = <<>> =>
                /\ ~aborted
                /\ Now = call.pre
                /\ Live_now = call.was
                /\ events = <<>>

\* replace_range with a start beyond the length has appended a non-empty src.
C4_Witness ==
    /\ Returned("replace_range")
    /\ call.args.range = HalfOpen(3, 4)
    /\ call.was = <<1, 2>>
    /\ call.args.src = <<2, 1>>
    /\ Live_now = <<1, 2, 2, 1>>

\* C5: extend_from_within(range) with start < end <= length appends the elements
\* that were at the range before the call and leaves the others as they were,
\* also when it has to grow the block.
C5_ExtendFromWithinAppends ==
    Returned("extend_from_within") =>
        LET start == start_bound(call.args.range)
            end   == end_bound(call.args.range, call.pre.len)
        IN start < end /\ end <= call.pre.len =>
             Live_now = call.was \o SubSeq(call.was, start + 1, end)

\* C6: retain(f) leaves the elements f accepts, in their order, with that many
\* as the length and the capacity it had; an f that accepts everything and a
\* call on an empty container change nothing.
C6_RetainKeeps ==
    call.op = "retain" =>
        LET Keep(x) == x \in call.args.f
            kept == SelectSeq(call.was, Keep)
        IN /\ ~aborted
           /\ Live_now = kept
           /\ Now.len = Len(kept)
           /\ Now.cap = call.pre.cap
           /\ Now.ptr = call.pre.ptr
           /\ events = <<>>
           /\ call.args.f = Values => Live_now = call.was /\ Now = call.pre
           /\ call.pre.len = 0 => Now = call.pre

\* retain has dropped the middle one of three elements and moved the last down.
C6_Witness ==
    /\ Returned("retain")
    /\ call.was = <<1, 2, 1>>
    /\ call.args.f = {1}
    /\ Live_now = <<1, 1>>
    /\ Now.cap = call.pre.cap

\* C7: truncate(new_len) with new_len < length destructs each element of
\* [new_len, length) exactly once and no other, and sets the length to new_len.
C7_TruncateDrops ==
    Returned("truncate") /\ call.args.n < call.pre.len =>
        /\ ExactlyOnce(drops, call.args.n, call.pre.len)
        /\ Now.len = call.args.n

\* C8: clear() destructs each element of [0, length) exactly once, none on an
\* empty container, and sets the length to 0 with the capacity unchanged.
C8_ClearDrops ==
    Returned("clear") =>
        /\ ExactlyOnce(drops, 0, call.pre.len)
        /\ Now.len = 0
        /\ Now.cap = call.pre.cap

\* C9: destroying a container destructs each live element exactly once and
\* releases its block, if it has one, exactly once; a container that never
\* allocated releases nothing.
C9_DropReleases ==
    Returned("drop") =>
        /\ ExactlyOnce(drops, 0, call.pre.len)
        /\ call.pre.ptr # Dangling =>
             /\ Len(events) = 1
             /\ events[1].call = "dealloc"
             /\ events[1].blk = call.pre.ptr
             /\ ~heap[call.pre.ptr].live
        /\ call.pre.ptr = Dangling => events = <<>>

\* C10: every allocator call made for a container goes through the strategy the
\* container was constructed with.
C10_OwnStrategy ==
    ~aborted /\ call # Idle =>
        \A k \in 1..Len(events) :
            events[k].call # "read" =>
            events[k].via = (IF call.pre.st = "none" THEN Now.alloc ELSE call.pre.alloc)

\* n is 1, 2, 4, 8, ...
IsPowerOfTwo(n) == \E k \in 0..n : 2 ^ k = n

\* The calls that reach reserve or reserve_exact on the container they are made on.
Growing == {"reserve", "reserve_exact", "push", "extend", "extend_from_slice",
            "extend_from_within", "resize", "replace_range", "new_repeated", "from_iter"}

\* The length the last call asked room for: length + additional of its reserve.
Requested ==
    CASE call.op \in {"reserve", "reserve_exact"} -> call.pre.len + call.args.n
      [] call.op = "push" -> call.pre.len + 1
      [] call.op \in {"extend", "extend_from_slice", "from_iter"} ->
            call.pre.len + Len(call.args.src)
      [] call.op = "extend_from_within" ->
            call.pre.len + (end_bound(call.args.range, call.pre.len)
                            - start_bound(call.args.range))
      [] call.op \in {"resize", "new_repeated"} -> call.args.n
      [] call.op = "replace_range" ->
            call.pre.len - Deleted(call.args.range, call.pre.len) + Len(call.args.src)
      [] OTHER -> 0

\* C11: when reserve, reserve_exact or a call that goes through them has changed
\* the capacity, the new capacity is a power of two and at least the length plus
\* the additional room asked for (for clone: the capacity of the new container);
\* and a call other than shrink_to_fit does not leave a container that lives on
\* with less capacity than it had.
C11_GrowthIsPowerOfTwo ==
    ~aborted /\ call # Idle =>
        /\ call.op \in Growing /\ Now.cap # call.pre.cap =>
              IsPowerOfTwo(Now.cap) /\ Now.cap >= Requested
        /\ call.op = "clone" =>
              \A w \in VecIds \ {call.who} :
                  vecs[w].cap # 0 => IsPowerOfTwo(vecs[w].cap) /\ vecs[w].cap >= call.pre.len
        /\ call.op \notin {"shrink_to_fit", "drop"} => Now.cap >= call.pre.cap

\* reserve_exact(1) on a full container of capacity 3 has taken it to capacity 4.
C11_Witness ==
    /\ Returned("reserve_exact")
    /\ call.pre.len = 3
    /\ call.pre.cap = 3
    /\ call.args.n = 1
    /\ Now.cap = 4

\* C12, as stated: after shrink_to_fit on a container in any reachable state,
\* capacity = max(length, 1).
C12_AsStated ==
    Returned("shrink_to_fit") => Now.cap = Max(Now.len, 1)

\* C12: when shrink_to_fit returns, a container that had a block has capacity
\* max(length, 1), a container that never allocated still has capacity 0 and no
\* block, and length and contents are what they were.
C12_ShrinkToFit ==
    Returned("shrink_to_fit") =>
        /\ Now.len = call.pre.len
        /\ Live_now = call.was
        /\ IF call.pre.cap = 0
           THEN Now.cap = 0 /\ Now.ptr = Dangling /\ events = <<>>
           ELSE Now.cap = Max(Now.len, 1)

\* shrink_to_fit has cut a block of four slots down to the two in use.
C12_Witness ==
    /\ Returned("shrink_to_fit")
    /\ call.pre.cap = 4
    /\ call.pre.len = 2
    /\ Now.cap = 2
    /\ Live_now = call.was

\* C13: the view leak() hands out is the live region [0, length) as it was, in
\* order; the call runs no destructor and makes no allocator call, and from then
\* on, whatever else the program does, the view keeps its elements and its block
\* stays allocated.
C13_LeakKeeps ==
    [][\A v \in VecIds :
          vecs'[v].st = "leaked" =>
              /\ vecs'[v].ptr = vecs[v].ptr
              /\ vecs'[v].len = vecs[v].len
              /\ as_slice(heap', vecs'[v]) = as_slice(heap, vecs[v])
              /\ vecs'[v].ptr # Dangling => heap'[vecs'[v].ptr].live
              /\ call'.op # "idle" /\ call'.who = v =>
                    call'.op = "leak" /\ events' = <<>> /\ drops' = <<>>]_vars

\* The original was leaked with three elements, and then its clone was dropped.
C13_Witness ==
    /\ Returned("drop")
    /\ call.who = 2
    /\ vecs[1].st = "leaked"
    /\ vecs[1].len = 3
    /\ Contents(1) = <<1, 2, 1>>

\* C14: truncate(n) with n >= length changes nothing: length, capacity, block
\* and contents stay, no destructor runs, no allocator call is made.  With
\* n < length a truncate that returns leaves the capacity, the block and the
\* elements at [0, n) as they were and the length at n; so truncate(0) leaves
\* length 0 with the capacity it had.
C14_TruncateFrame ==
    call.op = "truncate" =>
        LET n == call.args.n IN
        /\ n >= call.pre.len =>
              /\ ~aborted
              /\ Now = call.pre
              /\ Live_now = call.was
              /\ drops = <<>>
              /\ events = <<>>
        /\ ~aborted /\ n < call.pre.len =>
              /\ Now.cap = call.pre.cap
              /\ Now.ptr = call.pre.ptr
              /\ Now.len = n
              /\ Live_now = SubSeq(call.was, 1, n)
              /\ heap[Now.ptr].live
              /\ events = <<>>

\* truncate(0) has emptied a container of three elements and kept its four slots.
C14_Witness ==
    /\ Returned("truncate")
    /\ call.args.n = 0
    /\ call.pre.len = 3
    /\ call.pre.cap = 4
    /\ Now.len = 0
    /\ Now.cap = 4

\* How many entries of the log are calls of kind `what`.
Count(log, what) == Cardinality({k \in 1..Len(log) : log[k].call = what})

\* C15: with_capacity(n) and with_capacity_in(n, a) give, for every n from 0 on,
\* a container of length 0 with a block of capacity >= max(n, 1); and the first
\* push on a container created empty, that of with_capacity(0) among them, makes
\* at most one allocation, and none at all when there is a block already.
C15_WithCapacity ==
    /\ call.op \in {"with_capacity", "with_capacity_in"} =>
          /\ ~aborted
          /\ Now.len = 0
          /\ Now.cap >= Max(call.args.n, 1)
          /\ Now.ptr # Dangling
          /\ heap[Now.ptr].live
          /\ heap[Now.ptr].size = Now.cap * ElemSize
    /\ Returned("push") /\ pushed.ok /\ Len(pushed.seq) = 1 =>
          /\ Count(events, "alloc") + Count(events, "realloc") <= 1
          /\ call.pre.cap >= 1 => events = <<>> /\ Now.ptr = call.pre.ptr

\* The first push on with_capacity(0) (or 1: the two give the same container) has
\* returned without any allocator call.
C15_Witness ==
    /\ Returned("push")
    /\ pushed.ok
    /\ Len(pushed.seq) = 1
    /\ call.pre.cap = 1
    /\ call.pre.len = 0
    /\ Now.len = 1
    /\ events = <<>>

\* Container v owns a block: the program holds it, or has leaked it, with a
\* pointer that is not the sentinel.
Owns(c) == c.st \in {"live", "leaked"} /\ c.ptr # Dangling

\* C16: when clone returns, the new container has the length and the elements
\* of the original, in order, in a block of its own, and the original is as it
\* was; between any two calls no two containers own the same block; and a call
\* made on one container leaves the fields, the elements and the whole block of
\* every other container as they were.
C16_CloneIsIndependent ==
    [][/\ call'.op = "clone" /\ ~aborted' =>
            \A w \in VecIds \ {call'.who} :
                /\ vecs'[w].st = "live"
                /\ vecs'[w].len = call'.pre.len
                /\ as_slice(heap', vecs'[w]) = call'.was
                /\ vecs'[call'.who] = call'.pre
                /\ as_slice(heap', vecs'[call'.who]) = call'.was
       /\ \A v, w \in VecIds :
            v # w /\ Owns(vecs'[v]) /\ Owns(vecs'[w]) =>
                /\ vecs'[v].ptr # vecs'[w].ptr
                /\ heap'[vecs'[v].ptr].live
       /\ call'.op \notin {"idle", "clone"} =>
            \A w \in VecIds \ {call'.who} :
                /\ vecs'[w] = vecs[w]
                /\ as_slice(heap', vecs'[w]) = as_slice(heap, vecs[w])
                /\ Owns(vecs[w]) => heap'[vecs[w].ptr] = heap[vecs[w].ptr]]_vars

\* A push has grown the clone of a one-element container to two elements in a
\* new block, and the original still holds its one.
C16_Witness ==
    /\ Returned("push")
    /\ call.who = 2
    /\ call.pre.cap = 1
    /\ Now.cap = 2
    /\ Contents(2) = <<1, 2>>
    /\ vecs[1].st = "live"
    /\ Contents(1) = <<1>>
    /\ vecs[1].ptr # vecs[2].ptr

\* C17: every slot a call hands to the destructor is one of [0, length) of its
\* container, as the length was when the call began; none is at or beyond the
\* length, none beyond the capacity, none behind the sentinel.
C17_OnlyLiveSlots ==
    call # Idle =>
        \A k \in 1..Len(drops) : drops[k] >= 0 /\ drops[k] < call.pre.len

\* The calls the allocator saw, as opposed to the reads in the log.
AllocatorCalls == {"alloc", "dealloc", "realloc"}

\* The methods that grow the container through one reserve of their own.
Bulk == {"replace_range", "extend_from_slice", "extend_from_within", "resize", "push"}

\* C18: a bulk method that may grow the container makes its allocator calls, at
\* most one allocation with the release of the old block, before it has written
\* to any slot of the container's block or set the length: nothing of the old
\* block is modified before the new one is installed.
C18_ReserveFirst ==
    call.op \in Bulk =>
        /\ \A k \in 1..Len(events) :
              events[k].call \in AllocatorCalls => ~events[k].after_write
        /\ Count(events, "alloc") <= 1
        /\ Count(events, "realloc") = 0

\* replace_range has put two elements in the place of the first of two, in a
\* full block: it has allocated once, then shifted the tail and written.
C18_Witness ==
    /\ Returned("replace_range")
    /\ call.was = <<1, 2>>
    /\ call.pre.cap = 2
    /\ call.args.range = HalfOpen(0, 1)
    /\ call.args.src = <<2, 1>>
    /\ Live_now = <<2, 1, 2>>
    /\ Now.cap = 4
    /\ Count(events, "alloc") = 1
    /\ Count(events, "dealloc") = 1

\* C19: every dealloc and realloc call names a block that is allocated at that
\* moment, never the sentinel, with the byte size the block was allocated with.
C19_ReleasesWhatItOwns ==
    call # Idle =>
        \A k \in 1..Len(events) :
            events[k].call \in {"dealloc", "realloc"} =>
                events[k].blk # Dangling /\ events[k].ok

\* C20: extend_from_within reads its source elements from slots of a block that
\* is allocated when they are read.
C20_ReadsAllocated ==
    call.op = "extend_from_within" =>
        \A k \in 1..Len(events) : events[k].call = "read" => events[k].ok

===========================================================================
